---- MODULE Spec2Model ----
(***************************************************************************)
(* vtkLocationSelector (Filters/Extraction/vtkLocationSelector.cxx): the   *)
(* selector that marks the points or cells of a dataset block lying at the *)
(* locations of a vtkSelectionNode.                                        *)
(*                                                                         *)
(* Coordinates are integers, so squared distances and squared radii are    *)
(* exact.  Ids are 0-based as in the code: an array of n tuples is a       *)
(* function on 0..n-1.  The arguments of ComputeSelectedElementsForBlock   *)
(* are non-null (its assert), and the output array has one entry per       *)
(* element of the block.                                                   *)
(***************************************************************************)
EXTENDS Integers, FiniteSets, Sequences, TLC

(***************************************************************************)
(* Bounds of the model.                                                    *)
(***************************************************************************)
\* coordinates range over 0..MaxCoord on the x axis (y = z = 0)
MaxCoord == 2
\* the search radius is a non-negative scalar: EPSILON, when the node has it,
\* ranges over 0..MaxRadius
MaxRadius == 1
\* a selection list holds at most MaxLocations tuples
MaxLocations == 2
\* a dataset block holds at most MaxPoints points
MaxPoints == 2
\* a dataset block holds at most MaxCells cells
MaxCells == 1

\* the calls of ComputeSelectedElementsForBlock that may be in progress at once
Blocks == {1, 2}

VARIABLES
  Internals,         \* vtkLocationSelector::Internals: the live matcher, or nullptr
  node,              \* the vtkSelectionNode given to the last Initialize
  lastCall,          \* the last lifecycle call: "constructor", "Initialize", "Finalize"
  pc,                \* per call: "idle", "Execute", "loop", "done"
  input,             \* per call: the vtkDataObject argument
  prior,             \* per call: the contents of insidednessArray when the call began
  insidednessArray,  \* per call: the caller's output array
  locator,           \* per call: whether Execute built a vtkStaticPointLocator
  locationId,        \* per call: the loop variable of Execute (locationId / cc)
  result             \* per call: the value returned

vars == <<Internals, node, lastCall, pc, input, prior,
          insidednessArray, locator, locationId, result>>

(***************************************************************************)
(* Arrays and geometry.                                                    *)
(***************************************************************************)
\* the arrays of at most n tuples drawn from S
Arrays(n, S) == UNION {[0..(k - 1) -> S] : k \in 0..n}

NumberOfTuples(a) == Cardinality(DOMAIN a)

\* locations in space: 3-component tuples
Grid == {<<x, 0, 0>> : x \in 0..MaxCoord}

\* vtkMath::Distance2BetweenPoints
Distance2BetweenPoints(x, y) ==
  (x[1] - y[1]) * (x[1] - y[1]) + (x[2] - y[2]) * (x[2] - y[2])
    + (x[3] - y[3]) * (x[3] - y[3])

\* std::fill_n(array->GetPointer(0), n, 0)
FillZero(a, n) == [i \in DOMAIN a |-> IF i < n THEN 0 ELSE a[i]]

\* SetTypedComponent(id, 0, v) / SetValue(id, v): no range check; a write
\* outside the array shows as an entry outside 0..n-1
SetValue(a, id, v) == [i \in (DOMAIN a) \cup {id} |-> IF i = id THEN v ELSE a[i]]

(***************************************************************************)
(* Selection nodes.                                                        *)
(***************************************************************************)
LOCATIONS == "LOCATIONS"
ContentTypes == {"LOCATIONS", "INDICES"}
FieldTypes == {"CELL", "POINT", "FIELD", "VERTEX", "EDGE", "ROW"}

\* a null selection list, or one that is no vtkDataArray
NullArray == [IsDataArray |-> FALSE, NumberOfComponents |-> 0, Tuples |-> <<>>]

\* 3-component lists carry locations; the tuples of a list of another width
\* are never read, and are all zero here
DataArrays ==
  {[IsDataArray |-> TRUE, NumberOfComponents |-> 3, Tuples |-> t] :
     t \in Arrays(MaxLocations, Grid)}
  \cup
  {[IsDataArray |-> TRUE, NumberOfComponents |-> 2, Tuples |-> t] :
     t \in Arrays(MaxLocations, {<<0, 0>>})}

\* node->GetProperties(): with or without the EPSILON key
PropertySets == {<<>>} \cup {[EPSILON |-> r] : r \in 0..MaxRadius}

Nodes ==
  [SelectionList : {NullArray} \cup DataArrays,
   ContentType : ContentTypes,
   FieldType : FieldTypes,
   Properties : PropertySets]

\* vtkDataArray::SafeDownCast(node->GetSelectionList())
SafeDownCastArray(a) == IF a.IsDataArray THEN a ELSE NullArray

\* vtkSelectionNode::ConvertSelectionFieldToAttributeType
ConvertSelectionFieldToAttributeType(fieldType) ==
  CASE fieldType = "CELL" -> "FIELD_ASSOCIATION_CELLS"
    [] fieldType = "POINT" -> "FIELD_ASSOCIATION_POINTS"
    [] fieldType = "FIELD" -> "FIELD_ASSOCIATION_NONE"
    [] fieldType = "VERTEX" -> "FIELD_ASSOCIATION_VERTICES"
    [] fieldType = "EDGE" -> "FIELD_ASSOCIATION_EDGES"
    [] fieldType = "ROW" -> "FIELD_ASSOCIATION_ROWS"
    [] OTHER -> "FIELD_ASSOCIATION_NONE"

(***************************************************************************)
(* The matchers (vtkInternals and its two subclasses).                     *)
(***************************************************************************)
nullptr == [Class |-> "nullptr", SelectionList |-> <<>>, SearchRadius |-> 0]

vtkInternalsForPoints(selList, searchRadius) ==
  [Class |-> "vtkInternalsForPoints", SelectionList |-> selList,
   SearchRadius |-> searchRadius]

vtkInternalsForCells(selList, searchRadius) ==
  [Class |-> "vtkInternalsForCells", SelectionList |-> selList,
   SearchRadius |-> searchRadius]

\* node->GetProperties()->Has(EPSILON()) ? ...->Get(EPSILON()) : 0.0
RadiusOf(n) ==
  IF "EPSILON" \in DOMAIN n.Properties THEN n.Properties.EPSILON ELSE 0

\* a reset() that leaves the matcher in place
ResetKeeps(current) == current

\* this->Internals.reset()
Reset(current) == nullptr

\* a validation that lets a list of any width through
WrongWidthAny(selectionList) == FALSE

\* selectionList->GetNumberOfComponents() != 3
WrongWidth(selectionList) == selectionList.NumberOfComponents # 3

\* the matcher Initialize leaves in Internals: it resets the current one, and
\* every early return leaves the reset value
InitializeInternals(current, n) ==
  LET cleared == Reset(current)
      selectionList == SafeDownCastArray(n.SelectionList)
      assoc == ConvertSelectionFieldToAttributeType(n.FieldType)
      radius == RadiusOf(n)
  IN  IF ~selectionList.IsDataArray \/ NumberOfTuples(selectionList.Tuples) = 0
        THEN cleared
      ELSE IF WrongWidth(selectionList)
        THEN cleared
      ELSE IF n.ContentType # LOCATIONS
        THEN cleared
      ELSE CASE assoc = "FIELD_ASSOCIATION_POINTS" ->
                  vtkInternalsForPoints(selectionList.Tuples, radius)
             [] assoc = "FIELD_ASSOCIATION_CELLS" ->
                  vtkInternalsForCells(selectionList.Tuples, radius)
             [] OTHER -> cleared

(***************************************************************************)
(* Dataset blocks.                                                         *)
(***************************************************************************)
\* a vtkDataObject that is no vtkDataSet (a table, a graph)
NotADataSet == [IsDataSet |-> FALSE, IsPointSet |-> FALSE, Points |-> <<>>,
                Cells |-> <<>>]

\* a dataset of points without cells (a point cloud when it stores its points,
\* IsA("vtkPointSet"); a dataset answering FindPoint by lookup otherwise)
PointDataSet(isPointSet, points) ==
  [IsDataSet |-> TRUE, IsPointSet |-> isPointSet, Points |-> points, Cells |-> <<>>]

\* the boxes a cell may cover, each given by its low and its high corner
Boxes == {c \in Grid \X Grid : \A k \in 1..3 : c[1][k] <= c[2][k]}

\* a dataset of box cells: cell c is given by the ids of its two corner
\* points, 2c and 2c + 1
CellDataSet(boxes) ==
  [IsDataSet |-> TRUE, IsPointSet |-> TRUE,
   Points |-> [i \in 0..(2 * NumberOfTuples(boxes) - 1) |-> boxes[i \div 2][1 + (i % 2)]],
   Cells |-> [c \in DOMAIN boxes |-> <<2 * c, 2 * c + 1>>]]

PointDataSets ==
  {PointDataSet(ps, p) : ps \in BOOLEAN, p \in Arrays(MaxPoints, Grid)}

CellDataSets == {CellDataSet(c) : c \in Arrays(MaxCells, Boxes)}

GetNumberOfPoints(ds) == NumberOfTuples(ds.Points)
GetNumberOfCells(ds) == NumberOfTuples(ds.Cells)

\* the point nearest to x, the lowest id among equally near ones (the dataset
\* has at least one point)
ClosestPoint(ds, x) ==
  CHOOSE p \in DOMAIN ds.Points :
    \A q \in DOMAIN ds.Points :
      \/ Distance2BetweenPoints(ds.Points[p], x) < Distance2BetweenPoints(ds.Points[q], x)
      \/ /\ Distance2BetweenPoints(ds.Points[p], x) = Distance2BetweenPoints(ds.Points[q], x)
         /\ p <= q

\* vtkStaticPointLocator::FindClosestPointWithinRadius: the nearest point
\* when it lies within the radius, else -1
FindClosestPointWithinRadius(ds, radius, x) ==
  LET p == ClosestPoint(ds, x)
  IN  IF Distance2BetweenPoints(ds.Points[p], x) <= radius * radius THEN p ELSE -1

\* whether x lies in the bounding box of the dataset's points
InBounds(ds, x) ==
  \A k \in 1..3 :
    /\ \E p \in DOMAIN ds.Points : ds.Points[p][k] <= x[k]
    /\ \E p \in DOMAIN ds.Points : ds.Points[p][k] >= x[k]

\* vtkDataSet::FindPoint of a dataset without explicit points: the nearest
\* point, whatever its distance; -1 for a location outside the bounds
FindPoint(ds, x) == IF InBounds(ds, x) THEN ClosestPoint(ds, x) ELSE -1

\* whether cell c of ds contains x
CellContains(ds, c, x) ==
  LET a == ds.Points[ds.Cells[c][1]]
      b == ds.Points[ds.Cells[c][2]]
  IN  \A k \in 1..3 :
        /\ (a[k] <= x[k] \/ b[k] <= x[k])
        /\ (a[k] >= x[k] \/ b[k] >= x[k])

\* vtkStaticCellLocator::FindCell: a cell containing x (the lowest id), or -1
FindCell(ds, x) ==
  IF \E c \in DOMAIN ds.Cells : CellContains(ds, c, x)
    THEN CHOOSE c \in DOMAIN ds.Cells :
           /\ CellContains(ds, c, x)
           /\ \A d \in DOMAIN ds.Cells : CellContains(ds, d, x) => c <= d
    ELSE -1

(***************************************************************************)
(* The loop bodies of the two Execute methods.                             *)
(***************************************************************************)
\* a comparison that also drops a point at exactly the radius
RejectAtRadius(distance, radius) == distance >= radius * radius

\* the comparison turned round
RejectInside(distance, radius) == distance < radius * radius

\* the distance test of the lookup-backed strategy: the point FindPoint found is
\* dropped when its squared distance exceeds the squared radius
RejectByDistance(distance, radius) == distance > radius * radius

\* vtkInternalsForPoints::Execute: the point id a location resolves to
PointsCandidate(ds, hasLocator, radius, location) ==
  IF hasLocator
    THEN FindClosestPointWithinRadius(ds, radius, location)
    ELSE LET ptId == FindPoint(ds, location)
         IN  IF ptId >= 0
               THEN IF RejectByDistance(
                         Distance2BetweenPoints(ds.Points[ptId], location), radius)
                      THEN -1
                      ELSE ptId
               ELSE ptId

\* a loop body that fills the array again before every mark
PointsMarkRefill(array, ptId) ==
  IF ptId >= 0
    THEN SetValue(FillZero(array, NumberOfTuples(array)), ptId, 1)
    ELSE array

\* vtkInternalsForPoints::Execute: if (ptId >= 0) SetTypedComponent(ptId, 0, 1)
PointsMark(array, ptId) == IF ptId >= 0 THEN SetValue(array, ptId, 1) ELSE array

\* a mark without the lower range test
CellsMarkUnchecked(array, cid) ==
  LET numCells == NumberOfTuples(array)
  IN  IF cid < numCells THEN SetValue(array, cid, 1) ELSE array

\* vtkInternalsForCells::Execute: if (cid >= 0 && cid < numCells) SetValue(cid, 1)
CellsMark(array, cid) ==
  LET numCells == NumberOfTuples(array)
  IN  IF cid >= 0 /\ cid < numCells THEN SetValue(array, cid, 1) ELSE array

\* an early return that also skips a dataset of one point
NoPointsOrOne(numPoints) == numPoints <= 1

\* vtkInternalsForPoints::Execute: if (numPoints <= 0) return false
NoPoints(numPoints) == numPoints <= 0

\* an Execute that reports whether it selected anything
ReturnAnySelected(array) == \E i \in DOMAIN array : array[i] = 1

\* both Execute methods: return true after the loop
ReturnAfterLoop(array) == TRUE

\* a store into one array shared by every call
StoreShared(arrays, b, new) == [c \in DOMAIN arrays |-> new]

\* a store into the insidednessArray argument of call b
Store(arrays, b, new) == [arrays EXCEPT ![b] = new]

(***************************************************************************)
(* The two Execute methods and the dispatch as functions of their          *)
(* arguments: the run of one call with no other call in progress.          *)
(***************************************************************************)
RECURSIVE PointsLoop(_, _, _, _, _, _)
\* vtkInternalsForPoints::Execute: the loop from locationId on
PointsLoop(ds, hasLocator, radius, list, id, array) ==
  IF id < NumberOfTuples(list)
    THEN PointsLoop(ds, hasLocator, radius, list, id + 1,
                    PointsMark(array, PointsCandidate(ds, hasLocator, radius, list[id])))
    ELSE array

\* vtkInternalsForPoints::Execute
PointsExecute(list, radius, ds, array) ==
  LET numPoints == GetNumberOfPoints(ds)
  IN  IF NoPoints(numPoints)
        THEN [ret |-> FALSE, array |-> array]
        ELSE LET final == PointsLoop(ds, ds.IsPointSet, radius, list, 0,
                                     FillZero(array, numPoints))
             IN  [ret |-> ReturnAfterLoop(final), array |-> final]

RECURSIVE CellsLoop(_, _, _, _)
\* vtkInternalsForCells::Execute: the loop from cc on
CellsLoop(ds, list, cc, array) ==
  IF cc < NumberOfTuples(list)
    THEN CellsLoop(ds, list, cc + 1, CellsMark(array, FindCell(ds, list[cc])))
    ELSE array

\* vtkInternalsForCells::Execute
CellsExecute(list, ds, array) ==
  LET final == CellsLoop(ds, list, 0, FillZero(array, NumberOfTuples(array)))
  IN  [ret |-> ReturnAfterLoop(final), array |-> final]

(***************************************************************************)
(* Initial state: a constructed selector, no call in progress.             *)
(***************************************************************************)
NoNode == [SelectionList |-> NullArray, ContentType |-> "INDICES",
           FieldType |-> "CELL", Properties |-> <<>>]

Init ==
  /\ Internals = nullptr
  /\ node = NoNode
  /\ lastCall = "constructor"
  /\ pc = [b \in Blocks |-> "idle"]
  /\ input = [b \in Blocks |-> NotADataSet]
  /\ prior = [b \in Blocks |-> <<>>]
  /\ insidednessArray = [b \in Blocks |-> <<>>]
  /\ locator = [b \in Blocks |-> FALSE]
  /\ locationId = [b \in Blocks |-> 0]
  /\ result = [b \in Blocks |-> FALSE]

callVars == <<pc, input, prior, insidednessArray, locator, locationId, result>>
lifecycleVars == <<Internals, node, lastCall>>

\* setup, evaluation and teardown follow one another: a lifecycle call is made
\* when no ComputeSelectedElementsForBlock is in progress
NoCallInProgress == \A b \in Blocks : pc[b] = "idle"

(***************************************************************************)
(* vtkLocationSelector::Initialize                                         *)
(***************************************************************************)
Initialize(n) ==
  /\ NoCallInProgress
  /\ Internals' = InitializeInternals(Internals, n)
  /\ node' = n
  /\ lastCall' = "Initialize"
  /\ UNCHANGED callVars

(***************************************************************************)
(* vtkLocationSelector::Finalize                                           *)
(***************************************************************************)
\* a Finalize that releases nothing
FinalizeKeeps(current) == current

\* this->Internals.reset()
FinalizeInternals(current) == nullptr

Finalize ==
  /\ NoCallInProgress
  /\ Internals' = FinalizeInternals(Internals)
  /\ lastCall' = "Finalize"
  /\ UNCHANGED <<node, callVars>>

(***************************************************************************)
(* vtkLocationSelector::ComputeSelectedElementsForBlock                    *)
(***************************************************************************)
\* the sizes the caller may give the output array: one entry per point or
\* per cell of the block, as the live matcher needs it
ElementCounts(obj) ==
  IF ~obj.IsDataSet THEN 0..MaxPoints
  ELSE CASE Internals.Class = "vtkInternalsForPoints" -> {GetNumberOfPoints(obj)}
         [] Internals.Class = "vtkInternalsForCells" -> {GetNumberOfCells(obj)}
         [] OTHER -> {GetNumberOfPoints(obj), GetNumberOfCells(obj)}

\* the output arrays the caller may pass for obj, with any prior contents
OutputArrays(obj) == UNION {[0..(k - 1) -> {0, 1}] : k \in ElementCounts(obj)}

\* Internals != nullptr && ds != nullptr
Delegates(internals, obj) == internals # nullptr /\ obj.IsDataSet

\* the whole call as a function of the matcher, the block and the array
ComputeSelectedElementsAlone(internals, obj, array) ==
  IF Delegates(internals, obj)
    THEN IF internals.Class = "vtkInternalsForPoints"
           THEN PointsExecute(internals.SelectionList, internals.SearchRadius, obj, array)
           ELSE CellsExecute(internals.SelectionList, obj, array)
    ELSE [ret |-> FALSE, array |-> array]

ComputeSelectedElementsForBlock(b, obj, array) ==
  /\ pc[b] = "idle"
  /\ input' = [input EXCEPT ![b] = obj]
  /\ prior' = [prior EXCEPT ![b] = array]
  /\ insidednessArray' = [insidednessArray EXCEPT ![b] = array]
  /\ IF Delegates(Internals, obj)
       THEN /\ pc' = [pc EXCEPT ![b] = "Execute"]
            /\ UNCHANGED result
       ELSE /\ pc' = [pc EXCEPT ![b] = "done"]
            /\ result' = [result EXCEPT ![b] = FALSE]
  /\ UNCHANGED <<lifecycleVars, locator, locationId>>

\* the caller takes the returned value and its array
Return(b) ==
  /\ pc[b] = "done"
  /\ pc' = [pc EXCEPT ![b] = "idle"]
  /\ input' = [input EXCEPT ![b] = NotADataSet]
  /\ prior' = [prior EXCEPT ![b] = <<>>]
  /\ insidednessArray' = [insidednessArray EXCEPT ![b] = <<>>]
  /\ locator' = [locator EXCEPT ![b] = FALSE]
  /\ locationId' = [locationId EXCEPT ![b] = 0]
  /\ result' = [result EXCEPT ![b] = FALSE]
  /\ UNCHANGED lifecycleVars

(***************************************************************************)
(* vtkInternalsForPoints::Execute                                          *)
(***************************************************************************)
\* up to the loop: the early return, the locator, the fill
PointsExecuteBegin(b) ==
  /\ pc[b] = "Execute"
  /\ Internals.Class = "vtkInternalsForPoints"
  /\ LET numPoints == GetNumberOfPoints(input[b])
     IN  IF NoPoints(numPoints)
           THEN /\ pc' = [pc EXCEPT ![b] = "done"]
                /\ result' = [result EXCEPT ![b] = FALSE]
                /\ UNCHANGED <<insidednessArray, locator, locationId>>
           ELSE /\ locator' = [locator EXCEPT ![b] = input[b].IsPointSet]
                /\ insidednessArray' =
                     Store(insidednessArray, b, FillZero(insidednessArray[b], numPoints))
                /\ locationId' = [locationId EXCEPT ![b] = 0]
                /\ pc' = [pc EXCEPT ![b] = "loop"]
                /\ UNCHANGED result
  /\ UNCHANGED <<lifecycleVars, input, prior>>

\* one test of the loop condition: an iteration, or the return after the loop
PointsExecuteLoop(b) ==
  /\ pc[b] = "loop"
  /\ Internals.Class = "vtkInternalsForPoints"
  /\ LET numLocations == NumberOfTuples(Internals.SelectionList)
     IN  IF locationId[b] < numLocations
           THEN LET location == Internals.SelectionList[locationId[b]]
                    ptId == PointsCandidate(input[b], locator[b],
                                            Internals.SearchRadius, location)
                IN  /\ insidednessArray' =
                         Store(insidednessArray, b, PointsMark(insidednessArray[b], ptId))
                    /\ locationId' = [locationId EXCEPT ![b] = @ + 1]
                    /\ UNCHANGED <<pc, result>>
           ELSE /\ pc' = [pc EXCEPT ![b] = "done"]
                /\ result' = [result EXCEPT ![b] = ReturnAfterLoop(insidednessArray[b])]
                /\ UNCHANGED <<insidednessArray, locationId>>
  /\ UNCHANGED <<lifecycleVars, input, prior, locator>>

(***************************************************************************)
(* vtkInternalsForCells::Execute                                           *)
(***************************************************************************)
CellsExecuteBegin(b) ==
  /\ pc[b] = "Execute"
  /\ Internals.Class = "vtkInternalsForCells"
  /\ LET numCells == NumberOfTuples(insidednessArray[b])
     IN  /\ insidednessArray' =
              Store(insidednessArray, b, FillZero(insidednessArray[b], numCells))
         /\ locationId' = [locationId EXCEPT ![b] = 0]
         /\ pc' = [pc EXCEPT ![b] = "loop"]
  /\ UNCHANGED <<lifecycleVars, input, prior, locator, result>>

CellsExecuteLoop(b) ==
  /\ pc[b] = "loop"
  /\ Internals.Class = "vtkInternalsForCells"
  /\ LET numLocations == NumberOfTuples(Internals.SelectionList)
     IN  IF locationId[b] < numLocations
           THEN LET coords == Internals.SelectionList[locationId[b]]
                    cid == FindCell(input[b], coords)
                IN  /\ insidednessArray' =
                         Store(insidednessArray, b, CellsMark(insidednessArray[b], cid))
                    /\ locationId' = [locationId EXCEPT ![b] = @ + 1]
                    /\ UNCHANGED <<pc, result>>
           ELSE /\ pc' = [pc EXCEPT ![b] = "done"]
                /\ result' = [result EXCEPT ![b] = ReturnAfterLoop(insidednessArray[b])]
                /\ UNCHANGED <<insidednessArray, locationId>>
  /\ UNCHANGED <<lifecycleVars, input, prior, locator>>

(***************************************************************************)
(* Specifications.                                                         *)
(***************************************************************************)
\* the nodes of every kind whose list of locations, when it has one, holds at
\* most one location
ShortNodes ==
  {n \in Nodes : n.SelectionList.NumberOfComponents = 3
                   => NumberOfTuples(n.SelectionList.Tuples) <= 1}

\* the blocks with at most one point or one cell, and a data object that is
\* no dataset
SmallInputs ==
  {NotADataSet}
  \cup {ds \in PointDataSets : GetNumberOfPoints(ds) <= 1}
  \cup {ds \in CellDataSets : GetNumberOfCells(ds) <= 1}

Setup == NoCallInProgress /\ \E n \in ShortNodes : Initialize(n)

Evaluate ==
  /\ pc[1] = "idle"
  /\ \E obj \in SmallInputs : \E array \in OutputArrays(obj) :
       ComputeSelectedElementsForBlock(1, obj, array)

\* the lifecycle: setup, evaluation of one block at a time, teardown, under
\* every kind of node
Next ==
  \/ Setup
  \/ Finalize
  \/ Evaluate
  \/ PointsExecuteBegin(1)
  \/ PointsExecuteLoop(1)
  \/ CellsExecuteBegin(1)
  \/ CellsExecuteLoop(1)
  \/ Return(1)

Spec == Init /\ [][Next]_vars

\* the nodes that pass the validation of Initialize and state their radius
MatcherNodes ==
  {n \in Nodes : InitializeInternals(nullptr, n) # nullptr
                   /\ "EPSILON" \in DOMAIN n.Properties}

\* the blocks given to a matcher: datasets of points to the point matcher,
\* datasets of cells to the cell matcher
MatcherInputs ==
  CASE Internals.Class = "vtkInternalsForPoints" -> PointDataSets
    [] Internals.Class = "vtkInternalsForCells" -> CellDataSets
    [] OTHER -> {NotADataSet}

SetupMatcher == NoCallInProgress /\ \E n \in MatcherNodes : Initialize(n)

EvaluateBlock ==
  /\ pc[1] = "idle"
  /\ \E obj \in MatcherInputs : \E array \in OutputArrays(obj) :
       ComputeSelectedElementsForBlock(1, obj, array)

\* the two matchers, one block evaluated at a time, under every list of
\* locations and every block within the bounds
NextExecute ==
  \/ SetupMatcher
  \/ EvaluateBlock
  \/ PointsExecuteBegin(1)
  \/ PointsExecuteLoop(1)
  \/ CellsExecuteBegin(1)
  \/ CellsExecuteLoop(1)
  \/ Return(1)

SpecExecute == Init /\ [][NextExecute]_vars

\* the blocks of the interleaved evaluation: the caller's array arrives
\* holding 1 everywhere, so that the fill of each call shows
BlockInputs == MatcherInputs \cap SmallInputs
OnesArray(obj) ==
  UNION {{[i \in 0..(k - 1) |-> 1]} : k \in ElementCounts(obj)}

EvaluateAny ==
  \E b \in Blocks :
    /\ pc[b] = "idle"
    /\ \E obj \in BlockInputs : \E array \in OnesArray(obj) :
         ComputeSelectedElementsForBlock(b, obj, array)

ExecuteStep ==
  \E b \in Blocks :
    \/ PointsExecuteBegin(b)
    \/ PointsExecuteLoop(b)
    \/ CellsExecuteBegin(b)
    \/ CellsExecuteLoop(b)
    \/ Return(b)

\* one setup, then calls on several blocks whose steps interleave
NextBlocks ==
  \/ SetupMatcher
  \/ EvaluateAny
  \/ ExecuteStep

SpecBlocks == Init /\ [][NextBlocks]_vars

(***************************************************************************)
(* Properties.                                                             *)
(***************************************************************************)
Ready == Internals # nullptr
Done(b) == pc[b] = "done"
Selected(array) == {i \in DOMAIN array : array[i] = 1}

\* the validation of setup as the specification words it
NodeIsValid(n) ==
  /\ n.SelectionList.IsDataArray
  /\ NumberOfTuples(n.SelectionList.Tuples) >= 1
  /\ n.SelectionList.NumberOfComponents = 3
  /\ n.ContentType = "LOCATIONS"
  /\ ConvertSelectionFieldToAttributeType(n.FieldType)
       \in {"FIELD_ASSOCIATION_POINTS", "FIELD_ASSOCIATION_CELLS"}

\* C1: after Initialize, whatever matcher was live before, a matcher is live
\* if and only if the list exists with at least one tuple of exactly 3
\* components, the content type is LOCATIONS and the field type resolves to
\* points or cells; it is then the point matcher for points and the cell
\* matcher for cells, built over the node's list.
C1_SetupReadyIffValid ==
  lastCall = "Initialize" =>
    /\ Ready <=> NodeIsValid(node)
    /\ Ready =>
         /\ Internals.Class =
              IF ConvertSelectionFieldToAttributeType(node.FieldType)
                   = "FIELD_ASSOCIATION_POINTS"
                THEN "vtkInternalsForPoints"
                ELSE "vtkInternalsForCells"
         /\ Internals.SelectionList = node.SelectionList.Tuples

\* a setup that failed on the field type alone: a list of locations, of 3
\* components, asked for on the rows
C1_Witness ==
  /\ lastCall = "Initialize"
  /\ ~Ready
  /\ node.SelectionList.IsDataArray
  /\ node.SelectionList.NumberOfComponents = 3
  /\ NumberOfTuples(node.SelectionList.Tuples) >= 1
  /\ node.ContentType = "LOCATIONS"
  /\ node.FieldType = "ROW"

\* C2: after a setup that failed validation, every call of
\* ComputeSelectedElementsForBlock returns false without entering a matcher
\* and leaves the array as the caller passed it.
C2_FailedSetupEvaluatesToNothing ==
  (lastCall = "Initialize" /\ ~NodeIsValid(node)) =>
    \A b \in Blocks :
      /\ pc[b] \in {"idle", "done"}
      /\ Done(b) => (result[b] = FALSE /\ insidednessArray[b] = prior[b])

\* a call on a dataset after a setup with a list of 2 components per tuple,
\* the array holding a 1 from the caller
C2_Witness ==
  /\ lastCall = "Initialize"
  /\ node.SelectionList.NumberOfComponents = 2
  /\ NumberOfTuples(node.SelectionList.Tuples) >= 1
  /\ node.ContentType = "LOCATIONS"
  /\ node.FieldType = "POINT"
  /\ Done(1)
  /\ input[1].IsDataSet
  /\ Selected(insidednessArray[1]) # {}

\* C3 as claimed: with a live matcher, the call on a dataset block returns
\* true exactly when some entry of the array is 1 after it.
C3_ReturnsWhetherSelected ==
  \A b \in Blocks :
    (Ready /\ Done(b) /\ input[b].IsDataSet) =>
      (result[b] = TRUE <=> Selected(insidednessArray[b]) # {})

\* C3 as amended: with a live matcher, the call returns whether the matcher
\* ran its loop over the block: the point matcher on a dataset with at least
\* one point, the cell matcher on every dataset; whether any entry is 1 does
\* not enter.
C3_ReturnsWhetherProcessed ==
  \A b \in Blocks :
    (Ready /\ Done(b)) =>
      (result[b] = TRUE <=>
         /\ input[b].IsDataSet
         /\ Internals.Class = "vtkInternalsForPoints" => GetNumberOfPoints(input[b]) >= 1)

\* a call that returned true and left no entry at 1
C3_Witness ==
  /\ Ready
  /\ Done(1)
  /\ result[1] = TRUE
  /\ NumberOfTuples(insidednessArray[1]) >= 1
  /\ Selected(insidednessArray[1]) = {}

\* C10: Finalize leaves no matcher, whatever was live before; a Finalize
\* after a Finalize changes nothing; and a call made after Finalize returns
\* false and leaves the array as the caller passed it.
C10_TeardownReleases ==
  [][lastCall' = "Finalize" =>
       /\ Internals' = nullptr
       /\ lastCall = "Finalize" => Internals' = Internals
       /\ \A b \in Blocks :
            /\ pc'[b] \in {"idle", "done"}
            /\ pc'[b] = "done" =>
                 (result'[b] = FALSE /\ insidednessArray'[b] = prior'[b])]_vars

\* a call on a dataset after a Finalize, the node of the last setup a valid one
C10_Witness ==
  /\ lastCall = "Finalize"
  /\ NodeIsValid(node)
  /\ Done(1)
  /\ input[1].IsDataSet
  /\ GetNumberOfPoints(input[1]) >= 1
  /\ Selected(insidednessArray[1]) # {}

(***************************************************************************)
(* Properties of the matchers, under SpecExecute.                          *)
(***************************************************************************)
PointsDone(b) == Done(b) /\ Internals.Class = "vtkInternalsForPoints" /\ input[b].IsDataSet
CellsDone(b) == Done(b) /\ Internals.Class = "vtkInternalsForCells" /\ input[b].IsDataSet
Locations == {Internals.SelectionList[k] : k \in DOMAIN Internals.SelectionList}

\* the point the strategy of the dataset finds for q: the index query answers
\* with the nearest point, the lookup with what FindPoint returns
Found(ds, q) == IF ds.IsPointSet THEN ClosestPoint(ds, q) ELSE FindPoint(ds, q)

\* whether q selects point p of ds within radius
Selects(ds, radius, q, p) ==
  /\ Found(ds, q) = p
  /\ Distance2BetweenPoints(ds.Points[p], q) <= radius * radius

\* C4: the point matcher returns true if and only if the dataset has at
\* least one point, whatever matched; on a dataset without points it returns
\* false and the array is as the caller passed it.
C4_PointsReturnsWhetherNonEmpty ==
  \A b \in Blocks :
    PointsDone(b) =>
      /\ result[b] = TRUE <=> GetNumberOfPoints(input[b]) >= 1
      /\ GetNumberOfPoints(input[b]) = 0 => insidednessArray[b] = prior[b]

\* the point matcher returned true on a dataset of two points of which no
\* location selected any
C4_Witness ==
  /\ PointsDone(1)
  /\ result[1] = TRUE
  /\ GetNumberOfPoints(input[1]) = 2
  /\ \A p \in DOMAIN input[1].Points : \A q \in Locations :
       ~Selects(input[1], Internals.SearchRadius, q, p)

\* C5: after the point matcher ran on a dataset with at least one point, the
\* array has one entry per point, and the entry of p is 1 if and only if p is
\* the point found for some location and lies within the radius of it (its
\* squared distance is at most the squared radius); every other entry is 0.
C5_PointsSelectsNearestWithinRadius ==
  \A b \in Blocks :
    (PointsDone(b) /\ GetNumberOfPoints(input[b]) >= 1) =>
      /\ DOMAIN insidednessArray[b] = DOMAIN input[b].Points
      /\ \A p \in DOMAIN input[b].Points :
           insidednessArray[b][p] =
             IF \E q \in Locations : Selects(input[b], Internals.SearchRadius, q, p)
               THEN 1 ELSE 0

\* a lookup-backed run over an array that held a 1 everywhere: one location
\* selected its point at exactly the radius, another found a point beyond the
\* radius and was dropped, and an entry is 0
C5_Witness ==
  /\ PointsDone(1)
  /\ ~input[1].IsPointSet
  /\ \A p \in DOMAIN prior[1] : prior[1][p] = 1
  /\ \E p \in Selected(insidednessArray[1]) : \E q \in Locations :
       /\ Found(input[1], q) = p
       /\ Distance2BetweenPoints(input[1].Points[p], q)
            = Internals.SearchRadius * Internals.SearchRadius
  /\ \E q \in Locations :
       /\ Found(input[1], q) >= 0
       /\ Distance2BetweenPoints(input[1].Points[Found(input[1], q)], q)
            > Internals.SearchRadius * Internals.SearchRadius
  /\ \E p \in DOMAIN input[1].Points : insidednessArray[1][p] = 0

C7_PointsMonotoneInRadius ==
  \A b \in Blocks :
    PointsDone(b) =>
      \A r1 \in 0..Internals.SearchRadius :
        Selected(PointsExecute(Internals.SelectionList, r1, input[b], prior[b]).array)
          \subseteq Selected(insidednessArray[b])

\* a run whose radius selects a point that radius 0 does not, besides one
\* that radius 0 selects too
C7_Witness ==
  /\ PointsDone(1)
  /\ Internals.SearchRadius >= 1
  /\ LET atZero == Selected(PointsExecute(Internals.SelectionList, 0, input[1],
                                          prior[1]).array)
     IN  /\ atZero # {}
         /\ atZero # Selected(insidednessArray[1])

\* C8: within one Execute the array is first filled with 0; after that every
\* step of the loop leaves each entry as it is or takes it from 0 to 1.
C8_MaskOnlyGrows ==
  [][\A b \in Blocks :
       /\ (pc[b] = "Execute" /\ pc'[b] = "loop") =>
            \A i \in DOMAIN insidednessArray'[b] : insidednessArray'[b][i] = 0
       /\ pc[b] = "loop" =>
            /\ DOMAIN insidednessArray'[b] = DOMAIN insidednessArray[b]
            /\ \A i \in DOMAIN insidednessArray[b] :
                 \/ insidednessArray'[b][i] = insidednessArray[b][i]
                 \/ insidednessArray[b][i] = 0 /\ insidednessArray'[b][i] = 1]_vars

\* the point matcher in its loop, about to mark a second time a point it has
\* marked, with another entry still 0
C8_Witness ==
  /\ pc[1] = "loop"
  /\ Internals.Class = "vtkInternalsForPoints"
  /\ locationId[1] >= 1
  /\ locationId[1] < NumberOfTuples(Internals.SelectionList)
  /\ LET ptId == PointsCandidate(input[1], locator[1], Internals.SearchRadius,
                                 Internals.SelectionList[locationId[1]])
     IN  ptId >= 0 /\ insidednessArray[1][ptId] = 1
  /\ \E i \in DOMAIN insidednessArray[1] : insidednessArray[1][i] = 0

(***************************************************************************)
(* Interleaved calls, under SpecBlocks.                                    *)
(***************************************************************************)
\* C9: whatever the interleaving with the steps of the other calls, a call
\* ends with the value and the array it has when it runs alone.
C9_BlocksIndependent ==
  \A b \in Blocks :
    Done(b) =>
      LET alone == ComputeSelectedElementsAlone(Internals, input[b], prior[b])
      IN  result[b] = alone.ret /\ insidednessArray[b] = alone.array

\* call 1 has ended with a selection while call 2, on another block, is in
\* the middle of its loop
C9_Witness ==
  /\ Done(1)
  /\ result[1] = TRUE
  /\ Selected(insidednessArray[1]) # {}
  /\ pc[2] = "loop"
  /\ locationId[2] >= 1
  /\ input[2] # input[1]
  /\ Selected(insidednessArray[2]) = {}

====
